---- MODULE Spec2Model ----
(***************************************************************************)
(* Identity resolution of the Kubernetes module runtime (edgelet-kube):    *)
(* authenticate(request) reads the Authorization header, asks the cluster  *)
(* for a token review and, for an authenticated service account, fetches   *)
(* the service account to recover the module identity.                     *)
(*                                                                         *)
(* The cluster is the HTTP test server of tests/runtime.rs: a dispatch     *)
(* table of handlers with not_found_handler as the fallback.               *)
(***************************************************************************)
EXTENDS Integers, Sequences, FiniteSets, TLC

\* Number of authentication attempts that may be in flight together.
MaxAttempts == 2

Attempts == 1..MaxAttempts

-----------------------------------------------------------------------------
(* Bytes of the header values the tests send.                              *)

SP == 32

\* "Bearer"
Bearer == <<66, 101, 97, 114, 101, 114>>

\* "token"
TokenBytes == <<116, 111, 107, 101, 110>>

\* "token-unknown"
TokenUnknownBytes == TokenBytes \o <<45, 117, 110, 107, 110, 111, 119, 110>>

\* Request::default(): no Authorization header.
ReqNoHeader == [hasAuth |-> FALSE, value |-> <<>>]

\* Authorization: BeErer token
ReqInvalidHeader ==
    [hasAuth |-> TRUE, value |-> <<66, 101, 69, 114, 101, 114, SP>> \o TokenBytes]

\* Authorization: \u{3aa}\u{3a9}\u{3a4} (UTF-8 bytes)
ReqNonAscii == [hasAuth |-> TRUE, value |-> <<206, 170, 206, 169, 206, 164>>]

\* Authorization: Bearer token-unknown
ReqUnknownToken ==
    [hasAuth |-> TRUE, value |-> Bearer \o <<SP>> \o TokenUnknownBytes]

\* Authorization: Bearer token
ReqModuleToken == [hasAuth |-> TRUE, value |-> Bearer \o <<SP>> \o TokenBytes]

\* Further header values: lower-case scheme, two spaces, no token, a
\* Bearer scheme followed by a non-ASCII token.
ReqLowerCaseScheme ==
    [hasAuth |-> TRUE, value |-> <<98, 101, 97, 114, 101, 114, SP>> \o TokenBytes]

ReqTwoSpaces == [hasAuth |-> TRUE, value |-> Bearer \o <<SP, SP>> \o TokenBytes]

ReqSchemeOnly == [hasAuth |-> TRUE, value |-> Bearer]

ReqNonAsciiToken ==
    [hasAuth |-> TRUE, value |-> Bearer \o <<SP, 116, 195, 182, 107>>]

Requests ==
    { ReqNoHeader, ReqInvalidHeader, ReqNonAscii, ReqUnknownToken, ReqModuleToken,
      ReqLowerCaseScheme, ReqTwoSpaces, ReqSchemeOnly, ReqNonAsciiToken }

-----------------------------------------------------------------------------
(* Credential parsing.                                                     *)

IsAscii(v) == \A i \in 1..Len(v) : v[i] < 128

\* Index of the first space of v from index i on, 0 when there is none.
RECURSIVE SpaceFrom(_, _)
SpaceFrom(v, i) ==
    IF i > Len(v) THEN 0
    ELSE IF v[i] = SP THEN i
    ELSE SpaceFrom(v, i + 1)

FirstSpace(v) == SpaceFrom(v, 1)

\* The scheme word: the bytes before the first space (all of v without one).
SchemeOf(v) ==
    LET i == FirstSpace(v) IN IF i = 0 THEN v ELSE SubSeq(v, 1, i - 1)

\* The bytes after the first space.
AfterScheme(v) ==
    LET i == FirstSpace(v) IN IF i = 0 THEN <<>> ELSE SubSeq(v, i + 1, Len(v))

\* `Bearer <token>`: the case-sensitive scheme word, one space, a token
\* without spaces.
IsBearer(v) ==
    LET token == AfterScheme(v) IN
        /\ SchemeOf(v) = Bearer
        /\ token # <<>>
        /\ FirstSpace(token) = 0

-----------------------------------------------------------------------------
(* Results of authenticate: AuthId on success, ErrorKind on failure.       *)

AuthIdNone == [tag |-> "AuthId::None", val |-> ""]

AuthIdValue(x) == [tag |-> "AuthId::Value", val |-> x]

ModuleAuthenticationError == [tag |-> "ErrorKind::ModuleAuthenticationError", val |-> ""]

KubeClient == [tag |-> "ErrorKind::KubeClient", val |-> ""]

Pending == [tag |-> "pending", val |-> ""]

IsError(res) == res.tag \in {"ErrorKind::ModuleAuthenticationError", "ErrorKind::KubeClient"}

-----------------------------------------------------------------------------
(* The cluster API server: HTTP responses and the handlers producing them. *)
(* A handler ignores the request it is given (move |_| ...), so a handler  *)
(* is modelled by the response it returns.                                 *)

StatusOK == 200

StatusNotFound == 404

\* settings.namespace(): "namespace": "default"
Namespace == "default"

K8S_EDGE_ORIGINAL_MODULEID == "net.azure-devices.edge.original-moduleid"

EmptyBody == [json |-> FALSE]

NoResp == [conn |-> "none", status |-> 0, body |-> EmptyBody]

\* A user name is the sequence of its ':'-separated segments.
UserEdgeAgent == <<"system", "serviceaccount", "my-namespace", "edgeagent">>

UserAdmin == <<"kubernetes-admin">>

TokenReview(authenticated, user, username) ==
    [ json |-> TRUE, kind |-> "TokenReview",
      authenticated |-> authenticated, user |-> user, username |-> username ]

ServiceAccount(name, namespace, hasAnnotations, annotations) ==
    [ json |-> TRUE, kind |-> "ServiceAccount", name |-> name, namespace |-> namespace,
      hasAnnotations |-> hasAnnotations, annotations |-> annotations ]

NoAnnotations == [k \in {} |-> ""]

response(status_code, body) == [conn |-> "ok", status |-> status_code, body |-> body]

not_found_handler == response(StatusNotFound, EmptyBody)

authenticated_token_review_handler ==
    response(StatusOK, TokenReview("true", "string", UserEdgeAgent))

unauthenticated_token_review_handler ==
    response(StatusOK, TokenReview("false", "absent", <<>>))

get_service_account_with_annotations_handler ==
    response(StatusOK,
             ServiceAccount("edgeagent", "my-namespace", TRUE,
                            [k \in {K8S_EDGE_ORIGINAL_MODULEID} |-> "$edgeAgent"]))

get_service_account_without_annotations_handler ==
    response(StatusOK, ServiceAccount("edgeagent", "my-namespace", FALSE, NoAnnotations))

\* Cluster answers the tests do not script.
ConnectionRefused == [conn |-> "refused", status |-> 0, body |-> EmptyBody]

UnparsableBody == response(StatusOK, EmptyBody)

AuthenticatedNoUser == response(StatusOK, TokenReview("true", "absent", <<>>))

AuthenticatedOtherUser == response(StatusOK, TokenReview("true", "string", UserAdmin))

MissingAuthenticated == response(StatusOK, TokenReview("absent", "string", UserEdgeAgent))

IllTypedAuthenticated == response(StatusOK, TokenReview("illtyped", "string", UserEdgeAgent))

IllTypedUser == response(StatusOK, TokenReview("true", "illtyped", <<>>))

ServiceAccountOtherAnnotations ==
    response(StatusOK,
             ServiceAccount("edgeagent", "my-namespace", TRUE,
                            [k \in {"kubernetes.io/description"} |-> "agent"]))

TokenReviewHandlers ==
    { authenticated_token_review_handler, unauthenticated_token_review_handler,
      not_found_handler, UnparsableBody, AuthenticatedNoUser, AuthenticatedOtherUser,
      MissingAuthenticated, IllTypedAuthenticated, IllTypedUser }

\* A route GET /api/v1/namespaces/<ns>/serviceaccounts/<name> => handler.
Route(ns, name, handler) == [ns |-> ns, name |-> name, handler |-> handler]

NoRoute == Route("", "", not_found_handler)

ServiceAccountRoutes ==
    { Route(Namespace, "edgeagent", get_service_account_without_annotations_handler),
      Route(Namespace, "edgeagent", get_service_account_with_annotations_handler),
      Route("my-namespace", "edgeagent", get_service_account_with_annotations_handler),
      Route(Namespace, "edgeagent", ServiceAccountOtherAnnotations),
      Route(Namespace, "edgeagent", UnparsableBody) }

\* The dispatch tables a run may serve: a token-review handler alone, as in
\* the tests without a service-account route, the authenticated handler
\* with a service-account route, or no server listening at all.
Clusters ==
    {[up |-> TRUE, tokenreviews |-> h, sa |-> NoRoute] : h \in TokenReviewHandlers}
    \cup {[up |-> TRUE, tokenreviews |-> authenticated_token_review_handler, sa |-> r] :
            r \in ServiceAccountRoutes}
    \cup {[up |-> FALSE, tokenreviews |-> not_found_handler, sa |-> NoRoute]}

\* make_req_dispatcher: POST /apis/authentication.k8s.io/v1/tokenreviews
post_tokenreviews(c) == IF c.up THEN c.tokenreviews ELSE ConnectionRefused

\* make_req_dispatcher: GET /api/v1/namespaces/<ns>/serviceaccounts/<name>,
\* any other path falls to not_found_handler.
get_serviceaccount(c, ns, name) ==
    IF ~c.up THEN ConnectionRefused
    ELSE IF c.sa.ns = ns /\ c.sa.name = name THEN c.sa.handler
    ELSE not_found_handler

-----------------------------------------------------------------------------
(* Token Validator: what a token-review response says.                     *)

\* A call that did not yield a parsable 200 answer: connection error,
\* unexpected status, unparsable body.
CallFailed(r) == r.conn # "ok" \/ r.status # StatusOK \/ ~r.body.json

\* Bug: anything but an explicit false counts as authenticated.
Authenticated_UnlessFalse(r) == r.body.authenticated # "false"

\* status.authenticated, false when absent or not a boolean.
Authenticated(r) == r.body.authenticated = "true"

\* status.user.username, <<>> when absent or not a string.
AssertedUser(r) == IF r.body.user = "string" THEN r.body.username ELSE <<>>

-----------------------------------------------------------------------------
(* Identity Resolver.                                                      *)

\* system:serviceaccount:<ns>:<name>
MatchesServiceAccount(u) ==
    /\ Len(u) = 4
    /\ u[1] = "system"
    /\ u[2] = "serviceaccount"
    /\ u[3] # ""
    /\ u[4] # ""

ServiceAccountName(u) == u[4]

\* Bug: the service account is looked up in the namespace the user names.
FetchNamespace_FromUser(u) == u[3]

\* The namespace of the service-account lookup: settings.namespace(), as in
\* GET /api/v1/namespaces/{settings.namespace()}/serviceaccounts/edgeagent
\* for the user system:serviceaccount:my-namespace:edgeagent.
FetchNamespace(u) == Namespace

HasOriginalModuleId(body) ==
    body.hasAnnotations /\ K8S_EDGE_ORIGINAL_MODULEID \in DOMAIN body.annotations

-----------------------------------------------------------------------------
(* State.                                                                  *)

VARIABLES
    cluster,      \* the dispatch table the API server serves now
    pc,           \* per attempt: idle, token_review, get_service_account, done,
                  \* cancelled
    req,          \* per attempt: the request given to authenticate
    review,       \* per attempt: the token-review response received, or NoResp
    fetched,      \* per attempt: the service-account response received, or NoResp
    target,       \* per attempt: (namespace, name) of the service-account fetch
    calls,        \* per attempt: cluster calls issued so far
    result,       \* per attempt: Pending, an AuthId or an ErrorKind
    dpc,          \* dashboard: idle, listed, done
    mods,         \* dashboard: the module list the runtime returned
    reply,        \* dashboard: the response of the handler, or NoReply
    edge_config,  \* dashboard: context.edge_config, loaded at start
    dreq,         \* dashboard: the request being served, or NoRequest
    runtime_calls,\* dashboard: calls issued to the module runtime
    chunks,       \* dashboard: the log chunks received so far
    acc           \* dashboard: the accumulator of the fold over the chunks

authVars == <<cluster, pc, req, review, fetched, target, calls, result>>

dashVars == <<dpc, mods, reply, edge_config, dreq, runtime_calls, chunks, acc>>

vars ==
    <<cluster, pc, req, review, fetched, target, calls, result,
      dpc, mods, reply, edge_config, dreq, runtime_calls, chunks, acc>>

-----------------------------------------------------------------------------
(* Outcomes the tests of authenticate assert.                              *)

\* Bug: a request without a credential is rejected.
OnNoAuthHeader_Rejects == ModuleAuthenticationError

\* authenticate_returns_none_when_no_auth_token_provided
OnNoAuthHeader == AuthIdNone

\* Bug: a header with another scheme word is rejected as malformed.
OnInvalidAuthHeader_Rejects == ModuleAuthenticationError

\* Bug: a header with another scheme word is reported as a cluster failure.
OnInvalidAuthHeader_KubeError == KubeClient

\* authenticate_returns_none_when_invalid_auth_header_provided
OnInvalidAuthHeader == AuthIdNone

\* Bug: a header that is not ASCII is taken for no credential.
OnNonAsciiAuthHeader_Anonymous == AuthIdNone

\* Bug: the header is examined only after the cluster was contacted, so an
\* unreachable cluster hides the malformed credential.
OnNonAsciiAuthHeader_AfterCluster ==
    IF cluster.up THEN ModuleAuthenticationError ELSE KubeClient

\* authenticate_returns_none_when_invalid_auth_token_provided
OnNonAsciiAuthHeader == ModuleAuthenticationError

\* Bug: a rejected token is reported as a cluster failure.
OnUnauthenticated_KubeError == KubeClient

\* authenticate_returns_none_when_unknown_auth_token_provided
OnUnauthenticated == AuthIdNone

\* Bug: a failed service-account fetch is taken for no identity.
OnServiceAccountFetchFailed_Anonymous == AuthIdNone

\* Bug: a failed service-account fetch is reported with the wrong error kind.
OnServiceAccountFetchFailed_WrongKind == ModuleAuthenticationError

\* authenticate_returns_none_when_module_auth_token_provided_but_service_account_does_not_exists
OnServiceAccountFetchFailed == KubeClient

\* Bug: the namespace of the service account is returned for its name.
OnServiceAccountWithoutOriginalName_Namespace(body) == AuthIdValue(body.namespace)

\* Bug: a service account without the annotation is taken for no identity.
OnServiceAccountWithoutOriginalName_Anonymous(body) == AuthIdNone

\* authenticate_returns_sa_name_when_module_auth_token_provided_but_service_account_does_not_contain_original_name
OnServiceAccountWithoutOriginalName(body) == AuthIdValue(body.name)

\* Bug: the annotation is ignored and the name returned.
OnServiceAccountWithOriginalName_Name(body) == AuthIdValue(body.name)

\* authenticate_returns_auth_id_when_module_auth_token_provided
OnServiceAccountWithOriginalName(body) ==
    AuthIdValue(body.annotations[K8S_EDGE_ORIGINAL_MODULEID])

\* A failed token review.
OnTokenReviewFailed == KubeClient

\* Bug: an authenticated user that is no service account is an error.
OnUnrecognizedUser_KubeError == KubeClient

\* An authenticated user that is no service account.
OnUnrecognizedUser == AuthIdNone

-----------------------------------------------------------------------------
(* Steps of an authentication attempt.                                     *)

\* No dashboard request has been answered.
NoReply == [code |-> "none"]

NoTarget == [ns |-> "", name |-> ""]

NoCalls == [tokenreviews |-> 0, serviceaccounts |-> 0]

\* No dashboard request is being served.
NoRequest == [handler |-> "none", id |-> "None"]

\* context.edge_config: loaded; loaded but no client can be made for its
\* management URI; not loaded.
ConfigOk == "Ok"

ConfigNoClient == "Ok, no client"

ConfigErr == "Err"

EdgeConfigs == {ConfigOk, ConfigNoClient, ConfigErr}

AttemptsIdle ==
    /\ pc = [a \in Attempts |-> "idle"]
    /\ req = [a \in Attempts |-> ReqNoHeader]
    /\ review = [a \in Attempts |-> NoResp]
    /\ fetched = [a \in Attempts |-> NoResp]
    /\ target = [a \in Attempts |-> NoTarget]
    /\ calls = [a \in Attempts |-> NoCalls]
    /\ result = [a \in Attempts |-> Pending]

DashboardIdle ==
    /\ dpc = "idle"
    /\ mods = <<>>
    /\ reply = NoReply
    /\ dreq = NoRequest
    /\ runtime_calls = <<>>
    /\ chunks = <<>>
    /\ acc = <<>>

Init ==
    /\ cluster \in Clusters
    /\ AttemptsIdle
    /\ DashboardIdle
    /\ edge_config = ConfigOk

\* Bug: the answer another attempt received for the same credential is
\* reused instead of asking the cluster.
token_review_Cached(a) ==
    IF \E b \in Attempts \ {a} : review[b].conn # "none" /\ req[b] = req[a]
    THEN review[CHOOSE b \in Attempts \ {a} : review[b].conn # "none" /\ req[b] = req[a]]
    ELSE post_tokenreviews(cluster)

\* The token review of attempt a: the cluster's answer now; nothing is cached.
token_review(a) == post_tokenreviews(cluster)

\* Bug: a failed cluster call is issued once more before the attempt fails.
MaxRetries_One == 0 + 1

\* Times a failed cluster call is issued again: there is no retry.
MaxRetries == 0

\* Bug: the outcome is never delivered; the attempt stays where it is.
Finish_Hangs(a, res) ==
    /\ pc' = pc
    /\ result' = result

\* The attempt ends with outcome res.
Finish(a, res) ==
    /\ pc' = [pc EXCEPT ![a] = "done"]
    /\ result' = [result EXCEPT ![a] = res]

\* authenticate(req): read the Authorization header; a Bearer token is sent
\* to the cluster for review, anything else ends the attempt at once.
authenticate(a, r) ==
    /\ pc[a] = "idle"
    /\ req' = [req EXCEPT ![a] = r]
    /\ IF ~r.hasAuth THEN
            /\ Finish(a, OnNoAuthHeader)
            /\ calls' = calls
       ELSE IF ~IsAscii(r.value) THEN
            /\ Finish(a, OnNonAsciiAuthHeader)
            /\ calls' = calls
       ELSE IF ~IsBearer(r.value) THEN
            /\ Finish(a, OnInvalidAuthHeader)
            /\ calls' = calls
       ELSE
            /\ pc' = [pc EXCEPT ![a] = "token_review"]
            /\ calls' = [calls EXCEPT ![a].tokenreviews = @ + 1]
            /\ result' = result
    /\ UNCHANGED <<cluster, review, fetched, target, dashVars>>

\* The token review completes: a failed call is an error, an unauthenticated
\* or unrecognized user is AuthId::None, a service account is fetched from
\* the runtime's own namespace.
token_review_done(a) ==
    /\ pc[a] = "token_review"
    /\ LET r == token_review(a) IN
        /\ review' = [review EXCEPT ![a] = r]
        /\ IF CallFailed(r) /\ calls[a].tokenreviews <= MaxRetries THEN
                /\ calls' = [calls EXCEPT ![a].tokenreviews = @ + 1]
                /\ UNCHANGED <<pc, result, target>>
           ELSE IF CallFailed(r) THEN
                /\ Finish(a, OnTokenReviewFailed)
                /\ UNCHANGED <<target, calls>>
           ELSE IF ~Authenticated(r) \/ AssertedUser(r) = <<>> THEN
                /\ Finish(a, OnUnauthenticated)
                /\ UNCHANGED <<target, calls>>
           ELSE IF ~MatchesServiceAccount(AssertedUser(r)) THEN
                /\ Finish(a, OnUnrecognizedUser)
                /\ UNCHANGED <<target, calls>>
           ELSE
                /\ pc' = [pc EXCEPT ![a] = "get_service_account"]
                /\ target' = [target EXCEPT ![a] =
                                [ ns |-> FetchNamespace(AssertedUser(r)),
                                  name |-> ServiceAccountName(AssertedUser(r)) ]]
                /\ calls' = [calls EXCEPT ![a].serviceaccounts = @ + 1]
                /\ result' = result
    /\ UNCHANGED <<cluster, req, fetched, dashVars>>

\* The service-account fetch completes: the module id is the annotation
\* net.azure-devices.edge.original-moduleid when present, the name otherwise.
get_service_account_done(a) ==
    /\ pc[a] = "get_service_account"
    /\ LET r == get_serviceaccount(cluster, target[a].ns, target[a].name) IN
        /\ fetched' = [fetched EXCEPT ![a] = r]
        /\ IF CallFailed(r) /\ calls[a].serviceaccounts <= MaxRetries THEN
                /\ calls' = [calls EXCEPT ![a].serviceaccounts = @ + 1]
                /\ UNCHANGED <<pc, result>>
           ELSE IF CallFailed(r) THEN
                /\ Finish(a, OnServiceAccountFetchFailed)
                /\ calls' = calls
           ELSE IF HasOriginalModuleId(r.body) THEN
                /\ Finish(a, OnServiceAccountWithOriginalName(r.body))
                /\ calls' = calls
           ELSE
                /\ Finish(a, OnServiceAccountWithoutOriginalName(r.body))
                /\ calls' = calls
    /\ UNCHANGED <<cluster, req, review, target, dashVars>>

\* Bug: a cancelled attempt is seen as an attempt without identity.
OnCancelled_Anonymous == AuthIdNone

\* What a cancelled attempt shows: no result at all.
OnCancelled == Pending

\* The caller drops the future of an attempt in flight: the outstanding call
\* is aborted with it, no answer is delivered and no further call is issued.
cancel(a) ==
    /\ pc[a] \in {"token_review", "get_service_account"}
    /\ pc' = [pc EXCEPT ![a] = "cancelled"]
    /\ result' = [result EXCEPT ![a] = OnCancelled]
    /\ UNCHANGED <<cluster, req, review, fetched, target, calls, dashVars>>

\* The cluster starts serving another dispatch table, or goes down.  Only
\* an attempt with a call outstanding observes the table, so only changes
\* made while a call is outstanding are followed: a change made earlier is
\* the same change made right after the call was issued.
ClusterChanges(c) ==
    /\ c # cluster
    /\ \E a \in Attempts : pc[a] \in {"token_review", "get_service_account"}
    /\ cluster' = c
    /\ UNCHANGED <<pc, req, review, fetched, target, calls, result, dashVars>>

Next ==
    \/ \E a \in Attempts, r \in Requests : authenticate(a, r)
    \/ \E a \in Attempts : token_review_done(a)
    \/ \E a \in Attempts : get_service_account_done(a)
    \/ \E a \in Attempts : cancel(a)
    \/ \E c \in Clusters : ClusterChanges(c)

Spec == Init /\ [][Next]_vars

\* Every cluster call that was issued and not cancelled is answered.
Fairness ==
    \A a \in Attempts :
        /\ WF_vars(token_review_done(a))
        /\ WF_vars(get_service_account_done(a))

\* The cluster is down.
Outage == [up |-> FALSE, tokenreviews |-> not_found_handler, sa |-> NoRoute]

\* The attempts beside a cluster that serves one dispatch table until it
\* goes down.  An outage between the two calls of an attempt is the one
\* change that gives an attempt a pair of answers no single table gives.
NextLive ==
    \/ \E a \in Attempts, r \in Requests : authenticate(a, r)
    \/ \E a \in Attempts : token_review_done(a)
    \/ \E a \in Attempts : get_service_account_done(a)
    \/ \E a \in Attempts : cancel(a)
    \/ ClusterChanges(Outage)

SpecLive == Init /\ [][NextLive]_vars /\ Fairness

-----------------------------------------------------------------------------
(* Dashboard: the health rollup of the module list.                        *)

MaxModules == 3

ModuleIds == {"edgeAgent", "edgeHub", "tempSensor"}

\* A runtime status; "" when the runtime state is not ready.
ModuleStatuses == {"running", "stopped", ""}

\* Module::new; the type, image and placeholder figures play no part.
Module_new(id, status) == [id |-> id, status |-> status]

Modules == {Module_new(id, status) : id \in ModuleIds, status \in ModuleStatuses}

ModuleLists == UNION {[1..n -> Modules] : n \in 0..MaxModules}

Healthy == "Healthy"

Degraded == "Degraded"

Poor == "Poor"

\* Status::new
Status_new ==
    [iotedged |-> FALSE, edge_agent |-> FALSE, edge_hub |-> FALSE, other_modules |-> FALSE]

\* Bug: the daemon flag is left as Status::new made it.
set_iotedged_Never(self) == self

set_iotedged(self) == [self EXCEPT !.iotedged = TRUE]

set_edge_agent(self, val) == [self EXCEPT !.edge_agent = val]

set_edge_hub(self, val) == [self EXCEPT !.edge_hub = val]

set_other_modules(self, val) == [self EXCEPT !.other_modules = val]

return_health(self) ==
    IF self.iotedged /\ self.edge_agent /\ self.edge_hub THEN
        IF self.other_modules THEN Healthy ELSE Degraded
    ELSE Poor

\* HealthStatus::new
HealthStatus_new(health, status) == [health |-> health, status |-> status]

\* health_response(mods): 200 with the serialized HealthStatus.
health_response(ms) ==
    LET edge_agent ==
            \E i \in DOMAIN ms : ms[i].id = "edgeAgent" /\ ms[i].status = "running"
        edge_hub ==
            \E i \in DOMAIN ms : ms[i].id = "edgeHub" /\ ms[i].status = "running"
        other == \E i \in DOMAIN ms : ms[i].status # "running"
        device_status ==
            set_other_modules(
                set_edge_hub(
                    set_edge_agent(set_iotedged(Status_new), edge_agent),
                    edge_hub),
                edge_agent /\ edge_hub /\ other)
        health == return_health(device_status)
    IN  [code |-> "Ok", body |-> HealthStatus_new(health, device_status)]

\* module_response(mods): 200 with the serialized list.
module_response(ms) == [code |-> "Ok", body |-> ms]

-----------------------------------------------------------------------------
(* Dashboard: the log stream of a module.                                  *)

MaxChunks == 2

MaxPayload == 2

\* Bug: one byte less is taken for the head of a chunk.
HeaderLen_Seven == 8 - 1

\* The bytes at the head of a chunk that get_logs drops.
HeaderLen == 8

\* An ASCII letter, the last ASCII byte, the first byte that is not ASCII.
Bytes == {65, 127, 128}

Payloads == UNION {[1..n -> Bytes] : n \in 0..MaxPayload}

\* The head of a chunk that carries n bytes.
Header(n) == <<1, 0, 0, 0, 0, 0, 0, n>>

\* The chunks a log stream may deliver: a head and its payload, a chunk cut
\* short of its head, and chunks whose head bytes are not ASCII.
Chunks ==
    {Header(Len(p)) \o p : p \in Payloads}
    \cup {SubSeq(Header(0), 1, n) : n \in 0..7}
    \cup {[i \in 1..7 |-> 128], [i \in 1..8 |-> 128] \o <<65>>}

\* The closure of the fold: a chunk of at least 8 bytes adds what follows
\* its first 8 bytes, a shorter one adds nothing.
fold_chunk(a, chunk) ==
    IF Len(chunk) >= HeaderLen
    THEN a \o SubSeq(chunk, HeaderLen + 1, Len(chunk))
    ELSE a

\* Bug: every byte passes for ASCII.
is_ascii_Any(byte) == TRUE

\* (byte as char).is_ascii()
is_ascii(byte) == byte < 128

\* clone.retain(|&byte| (byte as char).is_ascii())
retain(v) == SelectSeq(v, is_ascii)

\* The length of the UTF-8 sequence that starts with byte b, 0 when b
\* starts none.
Utf8Width(b) ==
    IF b < 128 THEN 1
    ELSE IF b >= 194 /\ b <= 223 THEN 2
    ELSE IF b >= 224 /\ b <= 239 THEN 3
    ELSE IF b >= 240 /\ b <= 244 THEN 4
    ELSE 0

RECURSIVE Utf8From(_, _)
\* The bytes of v from position i on are well-formed UTF-8.
Utf8From(v, i) ==
    IF i > Len(v) THEN TRUE
    ELSE LET w == Utf8Width(v[i]) IN
         /\ w > 0
         /\ i + w - 1 <= Len(v)
         /\ \A k \in (i + 1)..(i + w - 1) : v[k] >= 128 /\ v[k] <= 191
         /\ Utf8From(v, i + w)

\* String::from_utf8(v).is_ok()
from_utf8(v) == Utf8From(v, 1)

\* The response of get_logs to the folded body.
logs_response(body) ==
    LET clone == retain(body) IN
    IF from_utf8(clone)
    THEN [code |-> "Ok", body |-> clone]
    ELSE [code |-> "ServiceUnavailable", text |-> "Logs unable to be displayed"]

-----------------------------------------------------------------------------
(* Dashboard: the handlers.                                                *)

\* req.match_info().get("id")
RouteIds == {"None", "edgeAgent"}

BadRequest == [code |-> "BadRequest", text |-> "Invalid module ID"]

\* Bug: a configuration that failed to load is answered as an internal error.
ServiceUnavailable_Internal == [code |-> "InternalServerError", text |-> "Err"]

\* The answer when the edge configuration failed to load.
ServiceUnavailable == [code |-> "ServiceUnavailable", text |-> "Err"]

\* ErrorInternalServerError
InternalServerError == [code |-> "InternalServerError", text |-> ""]

\* The handler answers.
Respond(r) ==
    /\ dpc' = "done"
    /\ reply' = r

\* The handler issues a call to the module runtime and waits for it.
Call(c, at) ==
    /\ runtime_calls' = Append(runtime_calls, c)
    /\ dpc' = at
    /\ reply' = reply

\* restart_module: 400 without a route id, 503 without configuration, or a
\* restart call to the runtime.
restart_module(id) ==
    /\ dpc = "idle"
    /\ dreq' = [handler |-> "restart_module", id |-> id]
    /\ IF id = "None" THEN Respond(BadRequest) /\ runtime_calls' = runtime_calls
       ELSE IF edge_config = ConfigErr
            THEN Respond(ServiceUnavailable) /\ runtime_calls' = runtime_calls
       ELSE IF edge_config = ConfigNoClient
            THEN Respond(InternalServerError) /\ runtime_calls' = runtime_calls
       ELSE Call("restart", "restarting")
    /\ UNCHANGED <<mods, edge_config, chunks, acc, authVars>>

\* The runtime restarted the module.
restart_done ==
    /\ dpc = "restarting"
    /\ Respond([code |-> "Ok", text |-> "Module has restarted"])
    /\ UNCHANGED <<mods, edge_config, dreq, runtime_calls, chunks, acc, authVars>>

\* get_logs: 400 without a route id, 503 without configuration, or a logs
\* call to the runtime.
get_logs(id) ==
    /\ dpc = "idle"
    /\ dreq' = [handler |-> "get_logs", id |-> id]
    /\ IF id = "None" THEN Respond(BadRequest) /\ runtime_calls' = runtime_calls
       ELSE IF edge_config = ConfigErr
            THEN Respond(ServiceUnavailable) /\ runtime_calls' = runtime_calls
       ELSE IF edge_config = ConfigNoClient
            THEN Respond(InternalServerError) /\ runtime_calls' = runtime_calls
       ELSE Call("logs", "logs_called")
    /\ UNCHANGED <<mods, edge_config, chunks, acc, authVars>>

\* The runtime answers the logs call with a stream; the fold starts empty.
logs_done ==
    /\ dpc = "logs_called"
    /\ dpc' = "streaming"
    /\ acc' = <<>>
    /\ UNCHANGED <<mods, reply, edge_config, dreq, runtime_calls, chunks, authVars>>

\* The stream delivers a chunk.
log_chunk ==
    /\ dpc = "streaming"
    /\ Len(chunks) < MaxChunks
    /\ \E chunk \in Chunks :
          /\ chunks' = Append(chunks, chunk)
          /\ acc' = fold_chunk(acc, chunk)
    /\ UNCHANGED <<dpc, mods, reply, edge_config, dreq, runtime_calls, authVars>>

\* The stream ends without error.
log_end ==
    /\ dpc = "streaming"
    /\ Respond(logs_response(acc))
    /\ UNCHANGED <<mods, edge_config, dreq, runtime_calls, chunks, acc, authVars>>

\* A call to the runtime, or the log stream, fails.
runtime_error ==
    /\ dpc \in {"restarting", "logs_called", "streaming", "listing"}
    /\ Respond(InternalServerError)
    /\ UNCHANGED <<mods, edge_config, dreq, runtime_calls, chunks, acc, authVars>>

\* return_modules, called by get_modules and by get_health: 503 without
\* configuration, or a list call to the runtime.
return_modules(h) ==
    /\ dpc = "idle"
    /\ dreq' = [handler |-> h, id |-> "None"]
    /\ IF edge_config = ConfigErr
       THEN Respond(ServiceUnavailable) /\ runtime_calls' = runtime_calls
       ELSE IF edge_config = ConfigNoClient
            THEN Respond(InternalServerError) /\ runtime_calls' = runtime_calls
       ELSE Call("list", "listing")
    /\ UNCHANGED <<mods, edge_config, chunks, acc, authVars>>

\* return_modules: the runtime answers the list call with a list of modules.
list ==
    /\ dpc = "listing"
    /\ dpc' = "listed"
    /\ \E ms \in ModuleLists : mods' = ms
    /\ UNCHANGED <<reply, edge_config, dreq, runtime_calls, chunks, acc, authVars>>

\* get_health: return_modules hands the listed modules to health_response.
get_health ==
    /\ dpc = "listed"
    /\ dreq.handler = "get_health"
    /\ dpc' = "done"
    /\ reply' = health_response(mods)
    /\ UNCHANGED <<mods, edge_config, dreq, runtime_calls, chunks, acc, authVars>>

\* get_modules: return_modules hands the listed modules to module_response.
get_modules ==
    /\ dpc = "listed"
    /\ dreq.handler = "get_modules"
    /\ Respond(module_response(mods))
    /\ UNCHANGED <<mods, edge_config, dreq, runtime_calls, chunks, acc, authVars>>

NextDashboard ==
    \/ \E id \in RouteIds : restart_module(id)
    \/ restart_done
    \/ \E id \in RouteIds : get_logs(id)
    \/ logs_done
    \/ log_chunk
    \/ log_end
    \/ runtime_error
    \/ \E h \in {"get_modules", "get_health"} : return_modules(h)
    \/ list
    \/ get_health
    \/ get_modules

\* The dashboard alone: no authentication attempt runs beside it.
InitDashboard ==
    /\ cluster = Outage
    /\ AttemptsIdle
    /\ DashboardIdle
    /\ edge_config \in EdgeConfigs

SpecDashboard == InitDashboard /\ [][NextDashboard]_vars

-----------------------------------------------------------------------------
(* Properties.                                                             *)

Started(a) == pc[a] # "idle"

Done(a) == pc[a] = "done"

Received(r) == r.conn # "none"

\* The token review of attempt a completed and reported an authenticated
\* service-account user.
ReviewedAsServiceAccount(a) ==
    /\ Received(review[a])
    /\ ~CallFailed(review[a])
    /\ Authenticated(review[a])
    /\ MatchesServiceAccount(AssertedUser(review[a]))

FetchSucceeded(a) == Received(fetched[a]) /\ ~CallFailed(fetched[a])

NoClusterCall(a) == calls[a] = NoCalls /\ ~Received(review[a]) /\ ~Received(fetched[a])

\* The requests by the way their Authorization header parses.
NonAsciiRequests == {r \in Requests : r.hasAuth /\ ~IsAscii(r.value)}

UnparsedRequests == {r \in Requests : r.hasAuth /\ IsAscii(r.value) /\ ~IsBearer(r.value)}

WrongSchemeRequests ==
    {r \in Requests : r.hasAuth /\ IsAscii(r.value) /\ SchemeOf(r.value) # Bearer}

BearerRequests == {r \in Requests : r.hasAuth /\ IsAscii(r.value) /\ IsBearer(r.value)}

\* C1: an attempt whose result is AuthId::Value(x) received, in that
\* attempt, a token review with authenticated = true and a user of the form
\* system:serviceaccount:<ns>:<name>, then a successful service-account
\* fetch, and x is the fetched original-moduleid annotation when present and
\* the fetched name otherwise.
C1_NamedOnlyAfterReviewAndFetch ==
    \A a \in Attempts :
        result[a].tag = "AuthId::Value" =>
            /\ ReviewedAsServiceAccount(a)
            /\ FetchSucceeded(a)
            /\ result[a].val =
                 IF HasOriginalModuleId(fetched[a].body)
                 THEN fetched[a].body.annotations[K8S_EDGE_ORIGINAL_MODULEID]
                 ELSE fetched[a].body.name

C1_Witness ==
    \E a \in Attempts : Done(a) /\ result[a] = AuthIdValue("edgeagent")

\* C2: an attempt in which the token-review call or the service-account
\* fetch ended with a connection error, an unexpected status or an
\* unparsable body fails with ErrorKind::KubeClient; it never ends with
\* AuthId::None.
C2_ClusterFaultIsKubeClientError ==
    \A a \in Attempts :
        (\/ Received(review[a]) /\ CallFailed(review[a])
         \/ Received(fetched[a]) /\ CallFailed(fetched[a]))
            => Done(a) /\ result[a] = KubeClient /\ result[a] # AuthIdNone

C2_Witness ==
    \E a, b \in Attempts :
        /\ Done(a) /\ review[a] = UnparsableBody
        /\ Done(b) /\ fetched[b] = ConnectionRefused

\* C3: a request whose Authorization header holds non-ASCII bytes fails with
\* ErrorKind::ModuleAuthenticationError, and the attempt issues no token
\* review and no service-account fetch.
C3_NonAsciiHeaderIsRejected ==
    \A a \in Attempts :
        (Started(a) /\ req[a] \in NonAsciiRequests) =>
            /\ Done(a)
            /\ result[a] = ModuleAuthenticationError
            /\ NoClusterCall(a)

C3_Witness ==
    \E a, b \in Attempts :
        /\ Done(a) /\ req[a] = ReqNonAscii
        /\ Done(b) /\ req[b] = ReqNonAsciiToken

\* C4 (as claimed): an ASCII Authorization header that is not exactly
\* `Bearer <token>` fails with ErrorKind::ModuleAuthenticationError and no
\* cluster call is issued.
C4_AsClaimed ==
    \A a \in Attempts :
        (Started(a) /\ req[a] \in UnparsedRequests) =>
            /\ Done(a)
            /\ result[a] = ModuleAuthenticationError
            /\ NoClusterCall(a)

\* C4 (amended): an ASCII Authorization header that is not exactly
\* `Bearer <token>` ends the attempt with AuthId::None, not with an error,
\* and no cluster call is issued.
C4_UnparsedHeaderIsAnonymous ==
    \A a \in Attempts :
        (Started(a) /\ req[a] \in UnparsedRequests) =>
            /\ Done(a)
            /\ result[a] = AuthIdNone
            /\ NoClusterCall(a)

C4_Witness ==
    \E a, b \in Attempts :
        /\ Done(a) /\ req[a] = ReqInvalidHeader /\ result[a] = AuthIdNone
        /\ Done(b) /\ req[b] = ReqTwoSpaces /\ result[b] = AuthIdNone

\* C5: when authenticate is given an ASCII header whose scheme word is not
\* Bearer while the cluster's token review reports authenticated = false,
\* the attempt completes with AuthId::None and not with an error.
C5_WrongSchemeWithRejectingCluster ==
    [][\A a \in Attempts :
          (/\ pc[a] = "idle"
           /\ pc'[a] # "idle"
           /\ req'[a] \in WrongSchemeRequests
           /\ ~CallFailed(post_tokenreviews(cluster))
           /\ ~Authenticated(post_tokenreviews(cluster)))
             => /\ pc'[a] = "done"
                /\ result'[a] = AuthIdNone
                /\ ~IsError(result'[a])]_vars

C5_Witness ==
    \E a \in Attempts :
        /\ Done(a)
        /\ req[a] = ReqInvalidHeader
        /\ result[a] = AuthIdNone
        /\ cluster.up
        /\ cluster.tokenreviews = unauthenticated_token_review_handler

\* C6: a request without an Authorization header ends with AuthId::None
\* whatever dispatch table the cluster serves, and asks the cluster nothing.
C6_NoHeaderIsAnonymous ==
    \A a \in Attempts :
        (Started(a) /\ ~req[a].hasAuth) =>
            /\ Done(a)
            /\ result[a] = AuthIdNone
            /\ NoClusterCall(a)

C6_Witness ==
    \E a \in Attempts :
        /\ Done(a)
        /\ req[a] = ReqNoHeader
        /\ cluster.up
        /\ cluster.tokenreviews = authenticated_token_review_handler
        /\ cluster.sa.handler = get_service_account_with_annotations_handler

\* C7: for a well-formed Bearer credential, a token review that completes
\* and reports authenticated = false, or carries no user, ends the attempt
\* with AuthId::None and no service-account fetch is issued.
C7_RejectedTokenIsAnonymous ==
    \A a \in Attempts :
        (/\ Received(review[a])
         /\ ~CallFailed(review[a])
         /\ (~Authenticated(review[a]) \/ AssertedUser(review[a]) = <<>>)) =>
            /\ req[a] \in BearerRequests
            /\ Done(a)
            /\ result[a] = AuthIdNone
            /\ calls[a].serviceaccounts = 0
            /\ ~Received(fetched[a])

C7_Witness ==
    \E a, b \in Attempts :
        /\ Done(a) /\ req[a] = ReqUnknownToken
        /\ review[a] = unauthenticated_token_review_handler
        /\ Done(b) /\ review[b] = AuthenticatedNoUser

\* C8: when the token review reported an authenticated service-account user
\* and the service-account fetch then failed (not found, unreachable), the
\* attempt fails with ErrorKind::KubeClient, never AuthId::None or a Value.
C8_FetchFailureIsKubeClientError ==
    \A a \in Attempts :
        (ReviewedAsServiceAccount(a) /\ Received(fetched[a]) /\ CallFailed(fetched[a])) =>
            /\ Done(a)
            /\ result[a] = KubeClient
            /\ result[a].tag \notin {"AuthId::None", "AuthId::Value"}

C8_Witness ==
    \E a \in Attempts :
        /\ Done(a)
        /\ req[a] = ReqModuleToken
        /\ review[a] = authenticated_token_review_handler
        /\ fetched[a] = not_found_handler
        /\ result[a] = KubeClient

\* C9: whenever the fetched service account carries the original-moduleid
\* annotation with value v, the result is AuthId::Value(v), also when v
\* differs from the fetched name.
C9_AnnotationTakesPrecedence ==
    \A a \in Attempts :
        (FetchSucceeded(a) /\ HasOriginalModuleId(fetched[a].body)) =>
            /\ Done(a)
            /\ result[a] =
                 AuthIdValue(fetched[a].body.annotations[K8S_EDGE_ORIGINAL_MODULEID])

C9_Witness ==
    \E a \in Attempts :
        /\ Done(a)
        /\ FetchSucceeded(a)
        /\ HasOriginalModuleId(fetched[a].body)
        /\ fetched[a].body.annotations[K8S_EDGE_ORIGINAL_MODULEID] # fetched[a].body.name
        /\ result[a] = AuthIdValue("$edgeAgent")

\* C10: whenever the service-account fetch succeeds and the fetched object
\* has no original-moduleid annotation (no annotations, or annotations
\* without the key), the result is AuthId::Value(n), n the fetched name.
C10_NameIsTheFallback ==
    \A a \in Attempts :
        (FetchSucceeded(a) /\ ~HasOriginalModuleId(fetched[a].body)) =>
            /\ Done(a)
            /\ result[a] = AuthIdValue(fetched[a].body.name)

C10_Witness ==
    \E a, b \in Attempts :
        /\ Done(a) /\ fetched[a] = get_service_account_without_annotations_handler
        /\ result[a] = AuthIdValue("edgeagent")
        /\ Done(b) /\ fetched[b] = ServiceAccountOtherAnnotations
        /\ result[b] = AuthIdValue("edgeagent")

\* C11: when the token review reports authenticated = true with a user that
\* is not of the form system:serviceaccount:<ns>:<name>, the attempt ends
\* with AuthId::None and no service-account fetch is ever issued.
C11_UnrecognizedUserIsAnonymous ==
    \A a \in Attempts :
        (/\ Received(review[a])
         /\ ~CallFailed(review[a])
         /\ Authenticated(review[a])
         /\ AssertedUser(review[a]) # <<>>
         /\ ~MatchesServiceAccount(AssertedUser(review[a]))) =>
            /\ Done(a)
            /\ result[a] = AuthIdNone
            /\ calls[a].serviceaccounts = 0
            /\ target[a] = NoTarget
            /\ ~Received(fetched[a])

C11_Witness ==
    \E a \in Attempts :
        /\ Done(a)
        /\ review[a] = AuthenticatedOtherUser
        /\ result[a] = AuthIdNone
        /\ target[a] = NoTarget

\* Spec 3: a malformed credential is a header with non-ASCII bytes or one
\* that is not `Bearer <token>`.
MalformedRequests == NonAsciiRequests \cup UnparsedRequests

\* C12 (as claimed): two attempts with the same malformed credential both
\* end with ErrorKind::ModuleAuthenticationError, whatever the cluster.
C12_AsClaimed ==
    \A a, b \in Attempts :
        (Started(a) /\ Started(b) /\ req[a] = req[b] /\ req[a] \in MalformedRequests) =>
            /\ Done(a) /\ result[a] = ModuleAuthenticationError
            /\ Done(b) /\ result[b] = ModuleAuthenticationError

\* C12 (amended): a malformed credential ends the attempt in the
\* authenticate step itself, under every dispatch table and with the
\* cluster up or down, without a cluster call, and with an outcome fixed by
\* the request alone: ErrorKind::ModuleAuthenticationError for non-ASCII
\* bytes, AuthId::None for an ASCII header that is not `Bearer <token>`; any
\* other attempt with the same request ended the same way.
C12_MalformedOutcomeIgnoresCluster ==
    [][\A a \in Attempts :
          (pc[a] = "idle" /\ pc'[a] # "idle" /\ req'[a] \in MalformedRequests) =>
             /\ pc'[a] = "done"
             /\ result'[a] = IF req'[a] \in NonAsciiRequests
                             THEN ModuleAuthenticationError
                             ELSE AuthIdNone
             /\ calls'[a] = NoCalls
             /\ ~Received(review'[a])
             /\ \A b \in Attempts \ {a} :
                   (Started(b) /\ req[b] = req'[a]) => result[b] = result'[a]]_vars

C12_Witness ==
    \E a, b \in Attempts :
        /\ a # b
        /\ ~cluster.up
        /\ Done(a) /\ req[a] = ReqNonAscii /\ result[a] = ModuleAuthenticationError
        /\ Done(b) /\ req[b] = ReqNonAscii /\ result[b] = ModuleAuthenticationError

\* C13: every service-account fetch is addressed to the runtime's configured
\* namespace and the name parsed from the asserted user; the namespace
\* segment of the user never chooses the lookup namespace, so the user
\* system:serviceaccount:my-namespace:edgeagent is fetched from `default`.
C13_FetchUsesConfiguredNamespace ==
    \A a \in Attempts :
        (calls[a].serviceaccounts > 0 \/ target[a] # NoTarget \/ Received(fetched[a])) =>
            /\ ReviewedAsServiceAccount(a)
            /\ target[a].ns = Namespace
            /\ target[a].name = AssertedUser(review[a])[4]
            /\ (AssertedUser(review[a]) = UserEdgeAgent =>
                    target[a] = [ns |-> "default", name |-> "edgeagent"])

C13_Witness ==
    \E a \in Attempts :
        /\ Done(a)
        /\ ReviewedAsServiceAccount(a)
        /\ AssertedUser(review[a]) = UserEdgeAgent
        /\ AssertedUser(review[a])[3] # Namespace
        /\ target[a] = [ns |-> "default", name |-> "edgeagent"]
        /\ FetchSucceeded(a)

\* A 200 answer with a parsable body.
CompletedReview(r) == r.conn = "ok" /\ r.status = StatusOK /\ r.body.json

\* status.authenticated or status.user.username is missing or ill-typed.
IncompleteReview(r) ==
    \/ r.body.authenticated \in {"absent", "illtyped"}
    \/ r.body.user \in {"absent", "illtyped"}

\* C14: a token review that completes but lacks the `authenticated` or the
\* `username` field, or carries one with the wrong type, yields no
\* authenticated identity: the attempt ends with AuthId::None, not with
\* ErrorKind::KubeClient.  A token review ends the attempt with
\* ErrorKind::KubeClient only on a connection error, a status other than
\* 200 or an unparsable body.
C14_IncompleteReviewIsTolerated ==
    \A a \in Attempts :
        /\ (Received(review[a]) /\ CompletedReview(review[a])
               /\ IncompleteReview(review[a])) =>
              /\ ~(Authenticated(review[a]) /\ AssertedUser(review[a]) # <<>>)
              /\ Done(a)
              /\ result[a] = AuthIdNone
              /\ ~Received(fetched[a])
        /\ (Received(review[a]) /\ ~Received(fetched[a]) /\ result[a] = KubeClient) =>
              \/ review[a].conn # "ok"
              \/ review[a].status # StatusOK
              \/ ~review[a].body.json

C14_Witness ==
    \E a, b \in Attempts :
        /\ Done(a) /\ review[a] = MissingAuthenticated /\ result[a] = AuthIdNone
        /\ Done(b) /\ review[b] = IllTypedUser /\ result[b] = AuthIdNone

\* A call that was issued and has not been answered.
ReviewOutstanding(a) ==
    calls[a].tokenreviews > 0 /\ ~Received(review[a]) /\ pc[a] # "cancelled"

FetchOutstanding(a) ==
    calls[a].serviceaccounts > 0 /\ ~Received(fetched[a]) /\ pc[a] # "cancelled"

\* C15: within one attempt the service-account fetch is issued only after
\* the token review of that attempt has completed with authenticated = true,
\* and the two calls of an attempt are never outstanding together.
C15_FetchFollowsReview ==
    \A a \in Attempts :
        /\ calls[a].serviceaccounts > 0 =>
              /\ calls[a].tokenreviews > 0
              /\ Received(review[a])
              /\ CompletedReview(review[a])
              /\ review[a].body.authenticated = "true"
        /\ pc[a] = "get_service_account" => Received(review[a])
        /\ ~(ReviewOutstanding(a) /\ FetchOutstanding(a))

C15_Witness ==
    \E a, b \in Attempts :
        /\ FetchOutstanding(a) /\ pc[a] = "get_service_account"
        /\ review[a] = authenticated_token_review_handler
        /\ ReviewOutstanding(b) /\ pc[b] = "token_review"

\* C16: an attempt issues at most one token review and at most one
\* service-account fetch; once a cluster call has failed the attempt issues
\* no further call and has failed with ErrorKind::KubeClient.
C16_NoRetry ==
    \A a \in Attempts :
        /\ calls[a].tokenreviews <= 1
        /\ calls[a].serviceaccounts <= 1
        /\ (Received(review[a]) /\ CallFailed(review[a])) =>
              /\ Done(a)
              /\ result[a] = KubeClient
              /\ calls[a] = [tokenreviews |-> 1, serviceaccounts |-> 0]
        /\ (Received(fetched[a]) /\ CallFailed(fetched[a])) =>
              /\ Done(a)
              /\ result[a] = KubeClient
              /\ calls[a] = [tokenreviews |-> 1, serviceaccounts |-> 1]

C16_Witness ==
    \E a, b \in Attempts :
        /\ Done(a) /\ review[a] = ConnectionRefused /\ result[a] = KubeClient
        /\ calls[a] = [tokenreviews |-> 1, serviceaccounts |-> 0]
        /\ Done(b) /\ fetched[b] = not_found_handler /\ result[b] = KubeClient
        /\ calls[b] = [tokenreviews |-> 1, serviceaccounts |-> 1]

\* The outcome of an attempt as a function of its own request and of the
\* answers to its own calls.
OwnOutcome(r, rv, sa) ==
    IF ~r.hasAuth THEN AuthIdNone
    ELSE IF r \in NonAsciiRequests THEN ModuleAuthenticationError
    ELSE IF r \in UnparsedRequests THEN AuthIdNone
    ELSE IF CallFailed(rv) THEN KubeClient
    ELSE IF rv.body.authenticated # "true" \/ rv.body.user # "string" THEN AuthIdNone
    ELSE IF ~MatchesServiceAccount(rv.body.username) THEN AuthIdNone
    ELSE IF CallFailed(sa) THEN KubeClient
    ELSE IF HasOriginalModuleId(sa.body)
         THEN AuthIdValue(sa.body.annotations[K8S_EDGE_ORIGINAL_MODULEID])
    ELSE AuthIdValue(sa.body.name)

\* Every attempt with a well-formed credential has issued its own token
\* review, and a finished attempt's outcome is fixed by its own request and
\* the answers it received.
OwnCallsDecide ==
    \A a \in Attempts :
        /\ (Started(a) /\ req[a] \in BearerRequests) => calls[a].tokenreviews = 1
        /\ Done(a) => result[a] = OwnOutcome(req[a], review[a], fetched[a])

\* An answer an attempt receives is the answer of the cluster as it is in
\* that step, whatever other attempts received before.
AnswersAreFresh ==
    \A a \in Attempts :
        /\ review'[a] # review[a] => review'[a] = post_tokenreviews(cluster)
        /\ fetched'[a] # fetched[a] =>
              fetched'[a] = get_serviceaccount(cluster, target[a].ns, target[a].name)

\* C17: under any interleaving of attempts, the outcome of each attempt is
\* determined only by its own request and by the cluster's answers to its
\* own calls; no result of another attempt with the same token is reused,
\* every attempt with a well-formed credential issues its own token review,
\* and a changed cluster answer is what the next attempt receives.
C17_NothingIsCached == []OwnCallsDecide /\ [][AnswersAreFresh]_vars

C17_Witness ==
    \E a, b \in Attempts :
        /\ req[a] = ReqModuleToken /\ req[b] = ReqModuleToken
        /\ Done(a) /\ review[a] = unauthenticated_token_review_handler
        /\ result[a] = AuthIdNone
        /\ Done(b) /\ review[b] = authenticated_token_review_handler
        /\ result[b] = AuthIdValue("$edgeAgent")
        /\ calls[a].tokenreviews = 1 /\ calls[b].tokenreviews = 1

Cancelled(a) == pc[a] = "cancelled"

\* A cancelled attempt shows no result and has no call outstanding; one
\* cancelled during its token review has issued no service-account fetch.
CancelledShowsNothing ==
    \A a \in Attempts :
        Cancelled(a) =>
            /\ result[a] = Pending
            /\ ~ReviewOutstanding(a) /\ ~FetchOutstanding(a)
            /\ ~Received(review[a]) => calls[a].serviceaccounts = 0
            /\ ~Received(fetched[a])

\* Cancelling changes nothing but the attempt's position, and nothing of a
\* cancelled attempt changes afterwards: no answer arrives, no call is
\* issued, no result appears.
CancelledStaysAborted ==
    \A a \in Attempts :
        /\ (~Cancelled(a) /\ Cancelled(a)') =>
              /\ pc[a] \in {"token_review", "get_service_account"}
              /\ review'[a] = review[a] /\ fetched'[a] = fetched[a]
              /\ calls'[a] = calls[a]
        /\ Cancelled(a) =>
              /\ Cancelled(a)'
              /\ review'[a] = review[a] /\ fetched'[a] = fetched[a]
              /\ calls'[a] = calls[a] /\ result'[a] = result[a]

\* C18: cancelling an attempt in flight aborts its outstanding call and the
\* whole pipeline: no further call is issued (cancelled during the token
\* review, no service-account fetch is ever issued) and no result,
\* AuthId::Value or AuthId::None, is exposed for the attempt.
C18_CancelLeavesNoResult == []CancelledShowsNothing /\ [][CancelledStaysAborted]_vars

C18_Witness ==
    \E a, b \in Attempts :
        /\ Cancelled(a) /\ ~Received(review[a])
        /\ calls[a] = [tokenreviews |-> 1, serviceaccounts |-> 0]
        /\ Cancelled(b) /\ ReviewedAsServiceAccount(b)
        /\ calls[b] = [tokenreviews |-> 1, serviceaccounts |-> 1]
        /\ result[a] = Pending /\ result[b] = Pending

Outcomes ==
    {"AuthId::Value", "AuthId::None",
     "ErrorKind::ModuleAuthenticationError", "ErrorKind::KubeClient"}

\* resolve(assertedUser) given the answer sa to the service-account fetch.
ResolverOutcome(user, sa) ==
    IF ~MatchesServiceAccount(user) THEN AuthIdNone
    ELSE IF sa.conn # "ok" \/ sa.status # StatusOK \/ ~sa.body.json THEN KubeClient
    ELSE IF sa.body.hasAnnotations /\ K8S_EDGE_ORIGINAL_MODULEID \in DOMAIN sa.body.annotations
         THEN AuthIdValue(sa.body.annotations[K8S_EDGE_ORIGINAL_MODULEID])
    ELSE AuthIdValue(sa.body.name)

\* The Identity Resolver was invoked: the review was answered with an
\* authenticated, named user.
ResolverInvoked(a) ==
    /\ Received(review[a])
    /\ CompletedReview(review[a])
    /\ review[a].body.authenticated = "true"
    /\ review[a].body.user = "string"

\* A finished attempt has exactly one of the four outcomes, and when the
\* resolver was invoked the outcome is the resolver's.
TerminatesInOneOutcome ==
    \A a \in Attempts :
        /\ Done(a) <=> result[a].tag \in Outcomes
        /\ (Done(a) /\ ResolverInvoked(a)) =>
              result[a] = ResolverOutcome(review[a].body.username, fetched[a])

\* C19: provided every issued cluster call is eventually answered, every
\* attempt that is started and not cancelled eventually terminates, in
\* exactly one of AuthId::Value, AuthId::None,
\* ErrorKind::ModuleAuthenticationError and ErrorKind::KubeClient; when the
\* Identity Resolver was invoked, authenticate returns its outcome unchanged.
C19_EveryAttemptTerminates ==
    /\ []TerminatesInOneOutcome
    /\ \A a \in Attempts : Started(a) ~> (Done(a) \/ Cancelled(a))

C19_Witness ==
    \E a, b \in Attempts :
        /\ Done(a) /\ ResolverInvoked(a) /\ FetchSucceeded(a)
        /\ result[a] = AuthIdValue("edgeagent")
        /\ Done(b) /\ ResolverInvoked(b) /\ ~FetchSucceeded(b)
        /\ MatchesServiceAccount(review[b].body.username)
        /\ result[b] = KubeClient

HealthReplied == dreq.handler = "get_health" /\ reply # NoReply /\ reply.code = "Ok"

Listed(id) == \E i \in DOMAIN mods : mods[i].id = id /\ mods[i].status = "running"

AllRunning == \A i \in DOMAIN mods : mods[i].status = "running"

\* C20 (as claimed): health_response reports Health::Healthy only if
\* edgeAgent and edgeHub are both listed with status running and every
\* module in the list has status running.
C20_AsClaimed ==
    (HealthReplied /\ reply.body.health = Healthy) =>
        Listed("edgeAgent") /\ Listed("edgeHub") /\ AllRunning

\* C20 (as computed): Health::Healthy is reported exactly when edgeAgent and
\* edgeHub are listed running and some module of the list is not running; a
\* list of running modules only is reported Degraded.
C20_HealthyAsComputed ==
    HealthReplied =>
        /\ reply.body.health = Healthy <=>
              Listed("edgeAgent") /\ Listed("edgeHub") /\ ~AllRunning
        /\ (Listed("edgeAgent") /\ Listed("edgeHub") /\ AllRunning) =>
              reply.body.health = Degraded

C20_Witness ==
    /\ HealthReplied
    /\ mods = <<Module_new("edgeAgent", "running"), Module_new("edgeHub", "running"),
                Module_new("tempSensor", "stopped")>>
    /\ reply.body.health = Healthy

\* C21: health_response reports Health::Poor if and only if the list lacks
\* a module named edgeAgent with status running or lacks a module named
\* edgeHub with status running; the iotedged flag of the reported status is
\* always true, so it never causes Poor.
C21_PoorIffAgentOrHubMissing ==
    HealthReplied =>
        /\ reply.body.status.iotedged
        /\ reply.body.status.edge_agent <=> Listed("edgeAgent")
        /\ reply.body.status.edge_hub <=> Listed("edgeHub")
        /\ reply.body.health = Poor <=> (~Listed("edgeAgent") \/ ~Listed("edgeHub"))

C21_Witness ==
    /\ HealthReplied
    /\ mods = <<Module_new("edgeAgent", "running"), Module_new("edgeHub", "stopped"),
                Module_new("tempSensor", "running")>>
    /\ reply.body.health = Poor
    /\ reply.body.status.iotedged

\* get_logs answered after the log stream ended without error.
LogsRead ==
    /\ dreq.handler = "get_logs"
    /\ dpc = "done"
    /\ reply \notin {BadRequest, ServiceUnavailable, InternalServerError}

RECURSIVE Payload(_, _)
\* The concatenation, in order, of the first n chunks of cs, each without
\* its first 8 bytes; a chunk shorter than 8 bytes adds nothing.
Payload(cs, n) ==
    IF n = 0 THEN <<>>
    ELSE Payload(cs, n - 1)
            \o (IF Len(cs[n]) < 8 THEN <<>> ELSE SubSeq(cs[n], 9, Len(cs[n])))

Below128(b) == b < 128

\* C22: for every sequence of log chunks that get_logs receives without a
\* stream error, the response body is the concatenation, in arrival order,
\* of each chunk with its first 8 bytes removed, a chunk shorter than 8
\* bytes adding nothing, with every byte of value 128 or more removed
\* afterwards.
C22_LogsBodyIsFilteredPayload ==
    /\ dpc = "streaming" => acc = Payload(chunks, Len(chunks))
    /\ LogsRead =>
          reply = [code |-> "Ok", body |-> SelectSeq(Payload(chunks, Len(chunks)), Below128)]

C22_Witness ==
    /\ LogsRead
    /\ chunks = <<Header(2) \o <<65, 128>>, SubSeq(Header(0), 1, 7)>>
    /\ reply.body = <<65>>

\* A dashboard request has been received.
Requested == dreq # NoRequest

NeedsId == dreq.handler \in {"restart_module", "get_logs"}

NoRouteId == NeedsId /\ dreq.id = "None"

\* C23 (as claimed): restart_module and get_logs answer 400 when the route
\* carries no id, and every handler answers 503 when the edge configuration
\* failed to load; in both cases no call is issued to the module runtime.
C23_AsClaimed ==
    /\ (Requested /\ NoRouteId) =>
          /\ dpc = "done" /\ runtime_calls = <<>>
          /\ reply = [code |-> "BadRequest", text |-> "Invalid module ID"]
    /\ (Requested /\ edge_config = ConfigErr) =>
          /\ dpc = "done" /\ runtime_calls = <<>>
          /\ reply.code = "ServiceUnavailable"

\* C23: restart_module and get_logs answer 400 `Invalid module ID` when the
\* route carries no id, whatever the configuration; when the edge
\* configuration failed to load, get_modules and get_health, and
\* restart_module and get_logs for a route with an id, answer 503; in both
\* cases no list, restart or logs call is issued to the module runtime.
C23_BadRequestBeforeUnavailable ==
    /\ (Requested /\ NoRouteId) =>
          /\ dpc = "done" /\ runtime_calls = <<>>
          /\ reply = [code |-> "BadRequest", text |-> "Invalid module ID"]
    /\ (Requested /\ ~NoRouteId /\ edge_config = ConfigErr) =>
          /\ dpc = "done" /\ runtime_calls = <<>>
          /\ reply.code = "ServiceUnavailable"
    /\ runtime_calls # <<>> =>
          /\ edge_config = ConfigOk
          /\ ~NoRouteId
          /\ runtime_calls =
                <<CASE dreq.handler = "restart_module" -> "restart"
                    [] dreq.handler = "get_logs" -> "logs"
                    [] OTHER -> "list">>

C23_Witness ==
    /\ edge_config = ConfigErr
    /\ dreq = [handler |-> "get_logs", id |-> "edgeAgent"]
    /\ dpc = "done"
    /\ reply.code = "ServiceUnavailable"
    /\ runtime_calls = <<>>

LogsNotDisplayed == [code |-> "ServiceUnavailable", text |-> "Logs unable to be displayed"]

\* C24: once get_logs has read the log stream without error the response is
\* 200 OK: the bytes retained are ASCII, so the conversion to UTF-8 succeeds
\* for every accumulated byte sequence and the 503 `Logs unable to be
\* displayed` response is never given.
C24_LogsAlwaysOk ==
    /\ reply # LogsNotDisplayed
    /\ dpc = "streaming" =>
          /\ IsAscii(retain(acc))
          /\ from_utf8(retain(acc))
          /\ logs_response(acc).code = "Ok"
    /\ LogsRead => reply.code = "Ok" /\ IsAscii(reply.body)

C24_Witness ==
    /\ LogsRead
    /\ acc = <<128, 65, 128>>
    /\ ~from_utf8(acc)
    /\ reply = [code |-> "Ok", body |-> <<65>>]

====
